---- MODULE Spec2Model ----
(***************************************************************************)
(* Model of OpenKS                                                         *)
(*   openks/distributed/openks_distributed/base/BaseDistributed.py         *)
(*     BaseDistributedAlgorithm  (the DistributedAlgorithm handle)         *)
(*     BaseDistributedOptimizer  (the OptimizerAdapter)                    *)
(*   openks/models/pytorch/kg_modules/gcn.py                               *)
(*     GCNLayer, UnsupervisedGCN (the GraphEncoder)                        *)
(*                                                                         *)
(* The interpreter is Python 3 (gcn.py uses parameter annotations), so    *)
(* `/` on two ints is true division and yields a float.                    *)
(*                                                                         *)
(* Every Python value is a record with a cls field, so that any two        *)
(* values can be compared.                                                 *)
(***************************************************************************)
EXTENDS Integers, Sequences, FiniteSets, TLC

VARIABLES
    is_initialized,   \* BaseDistributedAlgorithm._is_initialized
    mode,             \* BaseDistributedAlgorithm._mode
    optimizer,        \* BaseDistributedAlgorithm._optimizer
    role_maker,       \* BaseDistributedAlgorithm._role_maker
    executor,         \* BaseDistributedAlgorithm._executor
    role_generated,   \* role makers on which generate_role() has completed
    files,            \* the caller's file list
    last,             \* the most recent call on the handle or adapter and its outcome
    first,            \* the first query answered since the last init call
    adapter,          \* the BaseDistributedOptimizer object, once constructed
    trainers,         \* job size of the split_files study
    parts,            \* split_files results of workers 0, 1, ... of that job
    model,            \* the UnsupervisedGCN object, once constructed
    g,                \* the graph handed to forward
    feats             \* the node features handed to forward

vars == <<is_initialized, mode, optimizer, role_maker, executor, role_generated,
          files, last, first, adapter, trainers, parts, model, g, feats>>

algoVars == <<is_initialized, mode, optimizer, role_maker, executor>>
gcnVars == <<model, g, feats>>
splitVars == <<trainers, parts>>

----------------------------------------------------------------------------
(* Bounds *)

MaxWorkers == 3     \* largest worker count of a job
MaxFiles == 5       \* longest file list
MaxAlgoFiles == 2   \* longest file list the handle's caller holds
MaxAdapters == 2    \* BaseDistributedOptimizer objects constructed
HiddenSize == 2     \* hidden_size of the encoders constructed
MaxLayers == 2      \* largest num_layer
MaxNodes == 2       \* nodes of the largest graph
Scale == 4          \* tensor entries are multiples of 1/Scale

----------------------------------------------------------------------------
(* Python values *)

None == [cls |-> "NoneType"]
PyInt(i) == [cls |-> "int", n |-> i, d |-> 1]
PyFloat(a, b) == [cls |-> "float", n |-> a, d |-> b]
PyBool(b) == [cls |-> "bool", b |-> b]
PyList(s) == [cls |-> "list", items |-> s]
PyTuple(s) == [cls |-> "tuple", items |-> s]
PyStr(s) == [cls |-> "str", s |-> s]
PyJoined(sep, s) == [cls |-> "str", sep |-> sep, joined |-> s]

\* bool(x) as used by `role_maker and ...`
Truthy(x) ==
    CASE x.cls = "NoneType" -> FALSE
      [] x.cls = "int" -> x.n # 0
      [] x.cls = "float" -> x.n # 0
      [] x.cls = "bool" -> x.b
      [] x.cls \in {"list", "tuple"} -> Len(x.items) > 0
      [] x.cls = "str" -> x # PyStr("")
      [] OTHER -> TRUE

\* a / b on two ints: true division, always a float
PyTrueDiv(a, b) == PyFloat(a.n, b.n)

\* a + b on numbers: a float as soon as one operand is a float
PyAdd(a, b) ==
    IF a.cls = "int" /\ b.cls = "int"
    THEN PyInt(a.n + b.n)
    ELSE PyFloat(a.n * b.d + b.n * a.d, a.d * b.d)

Min(a, b) == IF a < b THEN a ELSE b
Max(a, b) == IF a > b THEN a ELSE b

\* seq[b:e] for ints b, e >= 0 (0-based, half-open, clamped to the length)
SliceInt(s, b, e) ==
    LET lo == Min(b, Len(s))
        hi == Min(e, Len(s))
    IN  IF hi <= lo THEN <<>> ELSE SubSeq(s, lo + 1, hi)

Ok(v) == [outcome |-> "ok", value |-> v, reached |-> FALSE]
Raise(e) == [outcome |-> e, value |-> None, reached |-> FALSE]

\* files[b:e]: a slice bound that is not an int raises TypeError
PySlice(s, b, e) ==
    IF b.cls # "int" \/ e.cls # "int"
    THEN Raise("TypeError")
    ELSE Ok(PyList(SliceInt(s, b.n, e.n)))

----------------------------------------------------------------------------
(* The role maker collaborator (RoleMaker.py) *)

Worker(i, w) ==
    [cls |-> "RoleMakerBase", kind |-> "worker", index |-> i, num |-> w,
     servers |-> 1, discovers |-> TRUE]

Server(i, w) ==
    [cls |-> "RoleMakerBase", kind |-> "server", index |-> i, num |-> w,
     servers |-> 2, discovers |-> TRUE]

\* a role maker whose generate_role() raises (role discovery fails)
Undiscoverable(rm) == [rm EXCEPT !.discovers = FALSE]

IsRoleMakerBase(x) == x.cls = "RoleMakerBase"

Endpoints(prefix, n) == [k \in 1..n |-> [host |-> prefix, port |-> k]]

\* what rm.<method>() returns once role discovery has completed
RoleAnswer(rm, method) ==
    CASE method = "is_first_worker" -> PyBool(rm.kind = "worker" /\ rm.index = 0)
      [] method = "worker_index" -> PyInt(rm.index)
      [] method = "worker_num" -> PyInt(rm.num)
      [] method = "is_worker" -> PyBool(rm.kind = "worker")
      [] method = "is_server" -> PyBool(rm.kind = "server")
      [] method = "server_index" -> PyInt(rm.index)
      [] method = "get_trainer_endpoints" -> PyList(Endpoints("trainer", rm.num))
      [] method = "get_pserver_endpoints" -> PyList(Endpoints("pserver", rm.servers))
      [] OTHER -> None

\* rm.<method>() on a role maker: fails until generate_role() has completed
RoleMakerCall(rm, generated, method) ==
    IF rm \in generated
    THEN [outcome |-> "ok", value |-> RoleAnswer(rm, method), reached |-> TRUE]
    ELSE [outcome |-> "UninitializedRoleError", value |-> None, reached |-> TRUE]

----------------------------------------------------------------------------
(* BaseDistributedAlgorithm *)

\* self._role_maker.<method>(...): attribute lookup on whatever _role_maker holds
Delegate(rm, generated, method) ==
    IF IsRoleMakerBase(rm)
    THEN RoleMakerCall(rm, generated, method)
    ELSE Raise("AttributeError")

IsOk(r) == r.outcome = "ok"

\* worker_endpoints / server_endpoints
EndpointsCall(rm, generated, method, to_string) ==
    LET r == Delegate(rm, generated, method)
    IN  IF IsOk(r) /\ to_string
        THEN [r EXCEPT !.value = PyJoined(",", r.value.items)]
        ELSE r

\* server_num: len(self._role_maker.get_pserver_endpoints())
ServerNumCall(rm, generated) ==
    LET r == Delegate(rm, generated, "get_pserver_endpoints")
    IN  IF IsOk(r) THEN [r EXCEPT !.value = PyInt(Len(r.value.items))] ELSE r

\* blocks after `blocks = [blocksize] * trainers` and the remainder loop
Blocks(blocksize, remainder, w) ==
    [k \in 1..w |-> IF k - 1 < remainder THEN PyAdd(blocksize, PyInt(1)) ELSE blocksize]

\* the slicing loop from index i (0-based) on; acc holds trainer_files[0..i-1]
RECURSIVE SliceLoop(_, _, _, _, _)
SliceLoop(items, blocks, i, begin, acc) ==
    IF i >= Len(blocks)
    THEN Ok(PyList(acc))
    ELSE LET r == PySlice(items, begin, PyAdd(begin, blocks[i + 1]))
         IN  IF ~IsOk(r)
             THEN r
             ELSE SliceLoop(items, blocks, i + 1, PyAdd(begin, blocks[i + 1]),
                            Append(acc, r.value))

\* the body of split_files once trainer_id and trainers are known
SplitBody(items, trainer_id, w) ==
    IF w = 0
    THEN Raise("ZeroDivisionError")
    ELSE LET remainder == Len(items) % w
             blocksize == PyTrueDiv(PyInt(Len(items)), PyInt(w))
             all == SliceLoop(items, Blocks(blocksize, remainder, w), 0, PyInt(0), <<>>)
         IN  IF ~IsOk(all)
             THEN all
             ELSE IF trainer_id >= w
                  THEN Raise("IndexError")
                  ELSE Ok(all.value.items[trainer_id + 1])

SplitFilesCall(rm, generated, arg) ==
    IF arg.cls # "list"
    THEN Raise("TypeError")
    ELSE LET id == Delegate(rm, generated, "worker_index")
             num == Delegate(rm, generated, "worker_num")
         IN  IF ~IsOk(id) THEN id
             ELSE IF ~IsOk(num) THEN num
             ELSE [SplitBody(arg.items, id.value.n, num.value.n) EXCEPT !.reached = TRUE]

\* the record kept of a call: operation, argument, and what came of it
Called(op, arg, r) ==
    [op |-> op, arg |-> arg, outcome |-> r.outcome, value |-> r.value,
     reached |-> r.reached]

NoCall == Called("none", None, Ok(None))

\* a query that uses up the caller's list while splitting it
QueryConsuming(op, arg, r) ==
    /\ last' = Called(op, arg, r)
    /\ first' = IF first = None THEN Called(op, arg, r) ELSE first
    /\ files' = IF op = "split_files" THEN <<>> ELSE files
    /\ UNCHANGED <<algoVars, role_generated, adapter, splitVars, gcnVars>>

\* a query on the handle: answers, and assigns no field of the handle
Query(op, arg, r) ==
    /\ last' = Called(op, arg, r)
    /\ first' = IF first = None THEN Called(op, arg, r) ELSE first
    /\ UNCHANGED <<algoVars, role_generated, files, adapter, splitVars, gcnVars>>

is_first_worker ==
    Query("is_first_worker", None, Delegate(role_maker, role_generated, "is_first_worker"))

worker_index ==
    Query("worker_index", None, Delegate(role_maker, role_generated, "worker_index"))

worker_num ==
    Query("worker_num", None, Delegate(role_maker, role_generated, "worker_num"))

is_worker ==
    Query("is_worker", None, Delegate(role_maker, role_generated, "is_worker"))

worker_endpoints ==
    \E to_string \in BOOLEAN :
        Query("worker_endpoints", PyBool(to_string),
              EndpointsCall(role_maker, role_generated, "get_trainer_endpoints", to_string))

server_num ==
    Query("server_num", None, ServerNumCall(role_maker, role_generated))

server_index ==
    Query("server_index", None, Delegate(role_maker, role_generated, "server_index"))

server_endpoints ==
    \E to_string \in BOOLEAN :
        Query("server_endpoints", PyBool(to_string),
              EndpointsCall(role_maker, role_generated, "get_pserver_endpoints", to_string))

is_server ==
    Query("is_server", None, Delegate(role_maker, role_generated, "is_server"))

\* what a caller may pass as `files`: its list, the same paths as a tuple,
\* or a single path
FilesArgs == {PyList(files), PyTuple(files), PyStr("a")}

split_files ==
    \E arg \in FilesArgs :
        Query("split_files", arg, SplitFilesCall(role_maker, role_generated, arg))

\* a collective that drops the role maker once it has been used
CollectiveReleasing(op, method) ==
    /\ last' = Called(op, None, Delegate(role_maker, role_generated, method))
    /\ role_maker' = None
    /\ UNCHANGED <<is_initialized, mode, optimizer, executor, role_generated, files,
                   first, adapter, splitVars, gcnVars>>

\* a call that is forwarded to the role maker and answers nothing
Collective(op, method) ==
    /\ last' = Called(op, None, Delegate(role_maker, role_generated, method))
    /\ UNCHANGED <<algoVars, role_generated, files, first, adapter, splitVars, gcnVars>>

all_reduce_worker == Collective("all_reduce_worker", "all_reduce_worker")

barrier_worker == Collective("barrier_worker", "barrier_worker")

\* the methods whose body is `pass`
PassMethods ==
    {"init_worker", "init_server", "run_server", "stop_worker",
     "distributed_optimizer", "save_inference_model", "save_persistables"}

pass_method ==
    \E op \in PassMethods :
        /\ last' = Called(op, None, Ok(None))
        /\ UNCHANGED <<algoVars, role_generated, files, first, adapter, splitVars, gcnVars>>

\* what a caller may pass to init; None is the default
RoleSources ==
    {None, PyStr("worker"), PyInt(0),
     Worker(1, 2), Server(0, 2), Undiscoverable(Worker(0, 2))}

init(rm) ==
    /\ executor' = [cls |-> "Executor", place |-> "CPUPlace"]
    /\ first' = None
    /\ IF Truthy(rm) /\ ~IsRoleMakerBase(rm)
       THEN /\ last' = Called("init", rm, Raise("TypeError"))
            /\ UNCHANGED <<role_maker, role_generated, is_initialized>>
       ELSE /\ role_maker' = rm
            /\ IF ~IsRoleMakerBase(rm)
               THEN /\ last' = Called("init", rm, Raise("AttributeError"))
                    /\ UNCHANGED <<role_generated, is_initialized>>
               ELSE IF ~rm.discovers
               THEN /\ last' = Called("init", rm,
                                      [Raise("RoleDiscoveryError") EXCEPT !.reached = TRUE])
                    /\ UNCHANGED <<role_generated, is_initialized>>
               ELSE /\ role_generated' = role_generated \cup {rm}
                    /\ is_initialized' = TRUE
                    /\ last' = Called("init", rm, [Ok(None) EXCEPT !.reached = TRUE])
    /\ UNCHANGED <<mode, optimizer, files, adapter, splitVars, gcnVars>>

Modes == {"TRANSPILER", "PSLIB"}

Prefix(n) == SubSeq(<<"a", "b", "c", "d", "e", "f", "g">>, 1, n)

\* BaseDistributedAlgorithm.__init__(mode)
AlgoConstructed ==
    /\ is_initialized = FALSE
    /\ mode \in Modes
    /\ optimizer = None
    /\ role_maker = None
    /\ executor = None

NoSplit == trainers = 0 /\ parts = <<>>
NoAdapter == adapter = <<>>
NoModel == model = None /\ g = None /\ feats = None

Init ==
    /\ AlgoConstructed
    /\ role_generated = {}
    /\ files \in {Prefix(n) : n \in 0..MaxAlgoFiles}
    /\ last = NoCall
    /\ first = None
    /\ NoAdapter /\ NoSplit /\ NoModel

Next ==
    \/ \E rm \in RoleSources : init(rm)
    \/ is_first_worker
    \/ worker_index
    \/ worker_num
    \/ is_worker
    \/ worker_endpoints
    \/ server_num
    \/ server_index
    \/ server_endpoints
    \/ is_server
    \/ split_files
    \/ all_reduce_worker
    \/ barrier_worker
    \/ pass_method

Spec == Init /\ [][Next]_vars

----------------------------------------------------------------------------
(* split_files across the workers of one job: worker i holds a handle whose *)
(* init has completed on a role maker of index i among `trainers` workers   *)

\* the file lists tried: distinct paths, and lists with repeated paths
RECURSIVE SeqsOver(_, _)
SeqsOver(S, n) ==
    IF n = 0 THEN {<<>>}
    ELSE LET shorter == SeqsOver(S, n - 1)
         IN  shorter \cup {Append(s, x) : s \in {t \in shorter : Len(t) = n - 1}, x \in S}

FileLists == {Prefix(n) : n \in 0..MaxFiles} \cup SeqsOver({"a", "b"}, MaxFiles - 2)

InitSplit ==
    /\ AlgoConstructed
    /\ role_generated = {}
    /\ files \in FileLists
    /\ trainers \in 1..MaxWorkers
    /\ parts = <<>>
    /\ last = NoCall
    /\ first = None
    /\ NoAdapter /\ NoModel

split_files_worker ==
    /\ Len(parts) < trainers
    /\ LET rm == Worker(Len(parts), trainers)
       IN  parts' = Append(parts, SplitFilesCall(rm, {rm}, PyList(files)))
    /\ UNCHANGED <<algoVars, role_generated, files, last, first, adapter, trainers, gcnVars>>

NextSplit == split_files_worker

SpecSplit == InitSplit /\ [][NextSplit]_vars

----------------------------------------------------------------------------
(* BaseDistributedOptimizer *)

\* the classes of paddle.fluid that matter here, each with its base classes
Bases(cls) ==
    CASE cls = "SGD" -> {"Optimizer"}
      [] cls = "Adam" -> {"Optimizer"}
      [] cls = "Optimizer" -> {"object"}
      [] cls = "OptimizerWithMixedPrecision" -> {"object"}
      [] cls = "object" -> {}
      [] OTHER -> {"object"}

RECURSIVE Ancestors(_, _)
Ancestors(classes, fuel) ==
    IF fuel = 0 THEN classes
    ELSE Ancestors(classes \cup UNION {Bases(c) : c \in classes}, fuel - 1)

\* isinstance(x, classinfo) for a tuple of classes
IsInstance(x, classinfo) == Ancestors({x.cls}, 3) \cap classinfo # {}

\* the test of BaseDistributedOptimizer.__init__, negated
OptimizerAcceptedSGDOnly(opt) ==
    IsInstance(opt, {"SGD"}) \/ IsInstance(opt, {"OptimizerWithMixedPrecision"})

OptimizerAccepted(opt) ==
    IsInstance(opt, Bases("SGD")) \/ IsInstance(opt, {"OptimizerWithMixedPrecision"})

Optimizers ==
    {[cls |-> "SGD"], [cls |-> "Adam"], [cls |-> "OptimizerWithMixedPrecision"],
     [cls |-> "object"], PyStr("sgd"), None}

Strategies == {None, PyStr("sync"), [cls |-> "DistributeTranspilerConfig"]}

CtorArgs(opt, strategy) == [cls |-> "args", optimizer |-> opt, strategy |-> strategy]

BaseDistributedOptimizer_init(opt, strategy) ==
    /\ Len(adapter) < MaxAdapters
    /\ IF ~OptimizerAccepted(opt)
       THEN /\ last' = Called("BaseDistributedOptimizer", CtorArgs(opt, strategy),
                              Raise("TypeError"))
            /\ UNCHANGED adapter
       ELSE /\ adapter' = Append(adapter, [optimizer |-> opt, strategy |-> strategy])
            /\ last' = Called("BaseDistributedOptimizer", CtorArgs(opt, strategy),
                              Ok(PyInt(Len(adapter) + 1)))
    /\ UNCHANGED <<algoVars, role_generated, files, first, splitVars, gcnVars>>

\* backward, apply_gradients and minimize of the base class: the body is `pass`
AdapterPass(op) ==
    \E self \in 1..Len(adapter) :
        /\ last' = Called(op, PyInt(self), Ok(None))
        /\ UNCHANGED <<algoVars, role_generated, files, first, adapter, splitVars, gcnVars>>

backward == AdapterPass("backward")

apply_gradients == AdapterPass("apply_gradients")

minimize == AdapterPass("minimize")

InitOpt ==
    /\ AlgoConstructed
    /\ role_generated = {}
    /\ files = <<>>
    /\ last = NoCall
    /\ first = None
    /\ adapter = <<>>
    /\ NoSplit /\ NoModel

NextOpt ==
    \/ \E opt \in Optimizers, strategy \in Strategies :
           BaseDistributedOptimizer_init(opt, strategy)
    \/ backward
    \/ apply_gradients
    \/ minimize

SpecOpt == InitOpt /\ [][NextOpt]_vars

----------------------------------------------------------------------------
(* Tensors: a tensor is a sequence of rows, a row a sequence of numbers,    *)
(* each number an integer count of 1/Scale                                  *)

Tensor(rows) == [cls |-> "Tensor", rows |-> rows]

RECURSIVE SumSeq(_)
SumSeq(s) == IF s = <<>> THEN 0 ELSE Head(s) + SumSeq(Tail(s))

RECURSIVE SetToSeq(_)
SetToSeq(S) ==
    IF S = {} THEN <<>>
    ELSE LET x == CHOOSE y \in S : TRUE IN <<x>> \o SetToSeq(S \ {x})

Width(rows) == IF rows = <<>> THEN HiddenSize ELSE Len(rows[1])

ZeroRow(n) == [k \in 1..n |-> 0]

\* the largest r with r * r <= v
ISqrt(v) == CHOOSE r \in 0..(Scale * HiddenSize * 2) : r * r <= v /\ v < (r + 1) * (r + 1)

Sign(x) == IF x > 0 THEN 1 ELSE IF x < 0 THEN -1 ELSE 0

\* x @ W for a row x and an integer matrix W (a sequence of rows of W)
RowTimes(x, W) ==
    [k \in 1..Len(W[1]) |-> SumSeq([j \in 1..Len(x) |-> x[j] * W[j][k]])]

Relu(x) == [k \in 1..Len(x) |-> Max(x[k], 0)]

----------------------------------------------------------------------------
(* dgl and torch.nn primitives *)

\* GraphConv(norm="none"): sum the features over the in-edges, then the
\* linear map and the bias, then the activation
GraphConv(params, activation, graph, x) ==
    [i \in 1..graph.n |->
        LET inn == SetToSeq({e \in graph.edges : e[2] = i})
            agg == [k \in 1..Width(x) |-> SumSeq([m \in 1..Len(inn) |-> x[inn[m][1]][k]])]
            lin == [k \in 1..Width(x) |->
                       RowTimes(agg, params.weight)[k] + params.bias * Scale]
        IN  IF activation = "relu" THEN Relu(lin) ELSE lin]

\* AvgPooling: one row for the graph, the mean of the node rows
AvgPooling(graph, x) ==
    << [k \in 1..Width(x) |-> SumSeq([i \in 1..Len(x) |-> x[i][k]]) \div graph.n] >>

\* Set2Set: one row of twice the width for the graph; q is the row the
\* attention LSTM arrives at
Set2Set(graph, x, q) == << q >>

\* nn.Linear(2 * hidden_size, hidden_size) with the weight [I; I] and no bias
Linear(x) ==
    [i \in 1..Len(x) |-> [k \in 1..(Len(x[i]) \div 2) |-> x[i][k] + x[i][k + Len(x[i]) \div 2]]]

\* nn.LayerNorm(elementwise_affine=False) on one row: (x - mean) / sqrt(var + eps);
\* eps = 1e-5 is below 1/Scale and only keeps a constant row from dividing by 0
LayerNormRow(x) ==
    LET H == Len(x)
        S == SumSeq(x)
        d == [k \in 1..H |-> H * x[k] - S]
        Q == SumSeq([k \in 1..H |-> d[k] * d[k]])
    IN  IF Q = 0 THEN ZeroRow(H)
        ELSE [k \in 1..H |-> Sign(d[k]) * ISqrt((Scale * Scale * d[k] * d[k] * H) \div Q)]

LayerNorm(x) == [i \in 1..Len(x) |-> LayerNormRow(x[i])]

----------------------------------------------------------------------------
(* GCNLayer *)

\* GCNLayer.forward with residual=False, batchnorm=False, dropout=0.0
GCNLayer_forward(layer, graph, x) ==
    GraphConv(layer.params, layer.activation, graph, x)

----------------------------------------------------------------------------
(* UnsupervisedGCN *)

\* for layer in self.layers: feats = layer(g, feats)
RECURSIVE Stacked(_, _, _)
Stacked(layers, graph, x) ==
    IF layers = <<>> THEN x
    ELSE Stacked(Tail(layers), graph, GCNLayer_forward(Head(layers), graph, x))

\* the readout installed for readout="root"
RootReadoutPooled(graph, x) == AvgPooling(graph, x)

RootReadout(graph, x) == x

\* self.readout(g, feats)
Readout(readout, graph, x, q) ==
    CASE readout.cls = "AvgPooling" -> AvgPooling(graph, x)
      [] readout.cls = "Set2Set" -> Set2Set(graph, x, q)
      [] OTHER -> RootReadout(graph, x)

UnsupervisedGCN_forward(self, graph, x, q) ==
    LET h1 == Stacked(self.layers, graph, x)
        h2 == Readout(self.readout, graph, h1, q)
        h3 == IF self.readout.cls = "Set2Set" THEN Linear(h2) ELSE h2
        h4 == IF self.layernorm THEN LayerNorm(h3) ELSE h3
    IN  h4

\* the parameters a GraphConv may hold
Identity == [j \in 1..HiddenSize |-> [k \in 1..HiddenSize |-> IF j = k THEN 1 ELSE 0]]
Shear == [j \in 1..HiddenSize |->
             [k \in 1..HiddenSize |-> IF j = k THEN 1 ELSE IF k = j + 1 THEN -1 ELSE 0]]
LayerParams == {[weight |-> Identity, bias |-> 0], [weight |-> Shear, bias |-> 1]}

ReadoutModes == {"avg", "set2set", "root", "max"}

GCNArgs(num_layer, readout, layernorm) ==
    [cls |-> "args", num_layer |-> num_layer, readout |-> readout,
     layernorm |-> layernorm]

UnsupervisedGCN_init(num_layer, readout, layernorm, params) ==
    LET layers == [i \in 1..num_layer |->
                      [params |-> params[i],
                       activation |-> IF i < num_layer THEN "relu" ELSE "None",
                       residual |-> FALSE, bn |-> FALSE]]
        args == GCNArgs(num_layer, readout, layernorm)
    IN  /\ IF readout \notin {"avg", "set2set", "root"}
           THEN /\ last' = Called("UnsupervisedGCN", args, Raise("NotImplementedError"))
                /\ UNCHANGED model
           ELSE /\ model' =
                     [cls |-> "UnsupervisedGCN",
                      layers |-> layers,
                      readout |-> CASE readout = "avg" -> [cls |-> "AvgPooling"]
                                    [] readout = "set2set" -> [cls |-> "Set2Set"]
                                    [] OTHER -> [cls |-> "function"],
                      linear |-> readout = "set2set",
                      layernorm |-> layernorm]
                /\ last' = Called("UnsupervisedGCN", args, Ok(None))
        /\ UNCHANGED <<algoVars, role_generated, files, first, adapter, splitVars, g, feats>>

\* the rows Set2Set may arrive at
Set2SetRows == {[k \in 1..(2 * HiddenSize) |-> v] : v \in {0, Scale}}

forward ==
    /\ model # None
    /\ \E q \in Set2SetRows :
           last' = Called("forward", None,
                          Ok(Tensor(UnsupervisedGCN_forward(model, g, feats.rows, q))))
    /\ UNCHANGED <<algoVars, role_generated, files, first, adapter, splitVars, gcnVars>>

\* the graphs tried: no edge, a chain, every edge with the self loops
Graphs ==
    UNION {{[cls |-> "DGLGraph", n |-> n, edges |-> E] :
               E \in {{}, {<<i, i + 1>> : i \in 1..(n - 1)}, (1..n) \X (1..n)}} :
           n \in 1..MaxNodes}

\* the feature rows tried: 0, the first unit vector, all ones, a ramp
FeatureRows ==
    << ZeroRow(HiddenSize),
       [k \in 1..HiddenSize |-> IF k = 1 THEN Scale ELSE 0],
       [k \in 1..HiddenSize |-> Scale],
       [k \in 1..HiddenSize |-> k * Scale] >>

\* the feature matrices tried for n nodes: every node the same row, or the
\* nodes running through the rows from some row on
Features(n) ==
    {[i \in 1..n |-> FeatureRows[r]] : r \in 1..Len(FeatureRows)}
    \cup {[i \in 1..n |-> FeatureRows[((i + r) % Len(FeatureRows)) + 1]] :
             r \in 1..Len(FeatureRows)}

InitGCN ==
    /\ AlgoConstructed
    /\ role_generated = {}
    /\ files = <<>>
    /\ last = NoCall
    /\ first = None
    /\ NoAdapter /\ NoSplit
    /\ model = None
    /\ g \in Graphs
    /\ feats \in {Tensor(rows) : rows \in Features(g.n)}

NextGCN ==
    \/ \E num_layer \in 0..MaxLayers, readout \in ReadoutModes, layernorm \in BOOLEAN :
           \E p \in LayerParams :
               UnsupervisedGCN_init(num_layer, readout, layernorm, [i \in 1..num_layer |-> p])
    \/ forward

SpecGCN == InitGCN /\ [][NextGCN]_vars

----------------------------------------------------------------------------
(* Properties *)

\* the contiguous slice the partitioning contract gives worker i of w
ExpectedPartition(list, i, w) ==
    LET base == Len(list) \div w
        rem == Len(list) % w
        begin == i * base + Min(i, rem)
        size == base + (IF i < rem THEN 1 ELSE 0)
    IN  SliceInt(list, begin, begin + size)

RECURSIVE ConcatItems(_)
ConcatItems(results) ==
    IF results = <<>> THEN <<>>
    ELSE Head(results).value.items \o ConcatItems(Tail(results))

ReturnsList(r) == IsOk(r) /\ r.value.cls = "list"

\* C1: once every worker 0..w-1 of a job has called splitFiles on the same
\* list, each call has returned a list and the lists, concatenated in worker
\* order, are the original list.
C1_ConcatenationIsOriginal ==
    Len(parts) = trainers /\ trainers > 0 =>
        /\ \A i \in 1..trainers : ReturnsList(parts[i])
        /\ ConcatItems(parts) = files

\* C2: worker i of w gets floor(n/w)+1 files when i < n mod w and floor(n/w)
\* files otherwise.
C2_PartitionSizes ==
    \A k \in 1..Len(parts) :
        /\ ReturnsList(parts[k])
        /\ Len(parts[k].value.items) =
               (Len(files) \div trainers) + (IF k - 1 < Len(files) % trainers THEN 1 ELSE 0)

RoleQueries ==
    {"is_first_worker", "worker_index", "worker_num", "is_worker", "worker_endpoints",
     "server_num", "server_index", "server_endpoints", "is_server"}

Collectives == {"all_reduce_worker", "barrier_worker"}

\* the failures that count as "the role is not initialized": the collaborator's
\* own error, and the failed lookup on a handle that holds no role maker
UninitializedFailures == {"UninitializedRoleError", "AttributeError"}

\* C3: while init has not completed successfully, every Role accessor, every
\* collective and splitFiles on a list fails as uninitialized, without
\* reaching the collaborator.
C3_FailsBeforeInit ==
    /\ ~is_initialized
    /\ \/ last.op \in RoleQueries \cup Collectives
       \/ last.op = "split_files" /\ last.arg.cls = "list"
    => /\ last.outcome \in UninitializedFailures
       /\ ~last.reached

ImplementsRole(x) == x.cls = "RoleMakerBase"

\* C4: init fails with TypeError for every role source that does not
\* implement the Role capability set, None included, and reaches role
\* discovery only for one that does.
C4_InitRejectsNonRole ==
    last.op = "init" =>
        /\ ~ImplementsRole(last.arg) => last.outcome = "TypeError"
        /\ last.reached => ImplementsRole(last.arg)

\* C5 as stated: once init has succeeded, no step changes the handle's Role.
C5_RoleNeverReplaced ==
    [][is_initialized => role_maker' = role_maker]_vars

\* C5 amended: once init has succeeded, the handle's Role is changed by no
\* accessor, splitFiles, collective or lifecycle call; the only step that
\* replaces or clears it is a further init call.
C5_RoleChangedOnlyByInit ==
    [][is_initialized /\ role_maker' # role_maker => last'.op = "init"]_vars

C5_Witness ==
    /\ is_initialized
    /\ role_maker \in role_generated
    /\ last.op = "barrier_worker"
    /\ last.outcome = "ok"

CapableClasses == {"SGD", "Adam", "OptimizerWithMixedPrecision"}

\* C6: constructing an adapter on an optimizer outside the capability set
\* fails with TypeError and creates no adapter; otherwise it stores exactly
\* that optimizer and strategy; no step changes an existing adapter's optimizer.
C6_AdapterConstruction ==
    [][/\ \A i \in 1..Len(adapter) :
              /\ Len(adapter') >= i
              /\ adapter'[i].optimizer = adapter[i].optimizer
       /\ last'.op = "BaseDistributedOptimizer" =>
              IF last'.arg.optimizer.cls \in CapableClasses
              THEN /\ last'.outcome = "ok"
                   /\ adapter' = Append(adapter, [optimizer |-> last'.arg.optimizer,
                                                  strategy |-> last'.arg.strategy])
              ELSE /\ last'.outcome = "TypeError"
                   /\ adapter' = adapter]_vars

C6_Witness ==
    /\ Len(adapter) = 2
    /\ adapter[1].optimizer.cls = "Adam"
    /\ last.op = "BaseDistributedOptimizer"
    /\ last.outcome = "ok"
    /\ last.arg.optimizer.cls = "OptimizerWithMixedPrecision"

\* C7: splitFiles raises TypeError on a non-sequence before any role query,
\* and on a list, on an initialized worker, returns the caller's partition.
C7_SplitFilesTypeCheck ==
    last.op = "split_files" =>
        /\ last.arg.cls \notin {"list", "tuple"} =>
               last.outcome = "TypeError" /\ ~last.reached
        /\ last.arg.cls = "list" /\ role_maker \in role_generated =>
               /\ last.outcome = "ok"
               /\ last.value = PyList(ExpectedPartition(last.arg.items, role_maker.index,
                                                        role_maker.num))

IsRootModel == model # None /\ model.readout.cls = "function"

SupportedReadouts == {"avg", "set2set", "root"}

RejectsUnknownReadout ==
    last.op = "UnsupervisedGCN" /\ last.arg.readout \notin SupportedReadouts =>
        last.outcome = "NotImplementedError"

\* C8 as stated: with readout "root", whatever the other settings, forward
\* returns the per-node features of the stacked layers unchanged; an unknown
\* readout mode is rejected at construction.
C8_RootReturnsFeaturesUnchanged ==
    /\ last.op = "forward" /\ IsRootModel =>
           last.value = Tensor(Stacked(model.layers, g, feats.rows))
    /\ RejectsUnknownReadout

\* C8 amended: with readout "root", forward returns one row per node, with no
\* pooling and no projection: the per-node features of the stacked layers
\* unchanged when normalization is off, and their layer normalization, row by
\* row, when it is on; an unknown readout mode is rejected at construction.
C8_RootReturnsFeaturesOrTheirNorm ==
    /\ last.op = "forward" /\ IsRootModel =>
           /\ Len(last.value.rows) = g.n
           /\ last.value =
                  IF model.layernorm
                  THEN Tensor(LayerNorm(Stacked(model.layers, g, feats.rows)))
                  ELSE Tensor(Stacked(model.layers, g, feats.rows))
    /\ RejectsUnknownReadout

C8_Witness ==
    /\ last.op = "forward"
    /\ IsRootModel
    /\ model.layernorm
    /\ Len(model.layers) = 2
    /\ g.n = 2
    /\ g.edges # {}
    /\ Len(last.value.rows) = 2
    /\ last.value # Tensor(Stacked(model.layers, g, feats.rows))
    /\ last.value = Tensor(LayerNorm(Stacked(model.layers, g, feats.rows)))

\* C9: after init, a Role accessor or splitFiles leaves every field of the
\* handle and the caller's list unchanged, and answers what the first such
\* call with the same argument answered.
C9_QueriesArePure ==
    [][is_initialized /\ last'.op \in RoleQueries \cup {"split_files"} =>
           /\ UNCHANGED <<is_initialized, mode, role_maker, optimizer, executor>>
           /\ files' = files
           /\ first # None /\ first.op = last'.op /\ first.arg = last'.arg =>
                  last'.outcome = first.outcome /\ last'.value = first.value]_vars

C9_Witness ==
    /\ is_initialized
    /\ first # None
    /\ first.op = "split_files"
    /\ first.arg = PyList(files)
    /\ Len(files) = 2
    /\ last.op = "worker_endpoints"
    /\ last.outcome = "ok"

\* C10: the initialization flag is true only if a Role on which role
\* discovery has completed is assigned and an execution context is bound.
C10_FlagImpliesRole ==
    is_initialized => role_maker \in role_generated /\ executor # None

====
